---- MODULE Spec2Model ----
(***************************************************************************)
(* A model of the open-chaining hash table HashDict (src/dict/hash_dict.go) *)
(* and of the HashSet adapter (src/hash_set.go).                            *)
(*                                                                          *)
(* Go slices are modelled as functions over 0..len-1, Option[V] as the      *)
(* empty sequence (None) or a one-element sequence (Some(v)).  Every        *)
(* operation of the table is an operator from the table (the record the     *)
(* pointer `inner` refers to) to the new table and the returned value; the  *)
(* actions apply these operators to the state.                              *)
(***************************************************************************)
EXTENDS Integers, Sequences, FiniteSets, TLC

VARIABLES
    inner,    \* the hashMap the HashDict points to (hash_dict.go:96-104)
    pre,      \* history: the hashMap as it was when the last call started
    call,     \* history: the last call, [name, key, value, fn]
    ret,      \* history: what the last call returned
    model,    \* history: the abstract key -> Option[V] map stepped by the same calls
    elems,    \* the HashMap[T, Void] inside the HashSet, as the set of its keys
    preElems  \* history: elems when the last HashSet call started

vars == <<inner, pre, call, ret, model, elems, preElems>>

----------------------------------------------------------------------------
(* Bounds of the model *)

\* Put/GetAndPut are not taken once appendCount would pass this (Spec)
MaxAppend == 4
\* the same cap for SpecDeep, which has to reach the doubling of 16 buckets
MaxAppendDeep == 31

\* keys and values the calls of Spec draw from; 0 is the zero value of K
Keys == {0, 3, 19}
Values == {1, 2}
\* the keys, values and `set` functions the calls of SpecDeep draw from
DeepKeys == {19}
DeepValues == {1}
DeepFns == {"keep"}
\* the keys HashDictOf is given in SpecDeep, each with value 1
PreloadKeys == 0..15
\* capacities handed to MakeHashDict
Capacities == {0, 17}
\* SpecDeep: the capacities of MakeHashDict and the numbers of pairs of HashDictOf
DeepCapacities == {-1, 17, 33}
PreloadSizes == {0, 16}
\* elements the HashSet calls draw from
Elements == {0, 3, 19, 35}

----------------------------------------------------------------------------
(* Go values *)

defaultElementsSize == 10

None == <<>>
Some(v) == <<v>>
IsSome(o) == Len(o) = 1

\* zero values of K and V (var nilK K; var nilV V)
nilK == 0
nilV == 0

\* entry[K, V]{}
zeroEntry == [hash |-> 0, key |-> nilK, value |-> nilV, next |-> 0, alive |-> FALSE]

\* len() of a slice
len(a) == Cardinality(DOMAIN a)

\* Go's % on int: the remainder truncates toward zero and has the dividend's sign
GoRem(a, b) == IF a >= 0 THEN a % b ELSE -((-a) % b)

\* keys NumberHasher maps to a negative hash: one a multiple of the 16 buckets
NegKeys == {-16, -3}
SignedKeys == NegKeys \cup {3}

AllKeys == Keys \cup DeepKeys \cup PreloadKeys
HashedKeys == AllKeys \cup NegKeys
\* NumberHasher: int(t)
NumberHasher == [k \in HashedKeys |-> k]
\* a custom hasher (any K -> int function may be injected): collides 3 and 19
CustomHasher == [k \in HashedKeys |-> k % 16]

\* the functions handed to GetAndPut as `set`
SetFns == {"toggle", "keep"}
ApplySet(fn, old) ==
    IF fn = "toggle"
    THEN (IF IsSome(old) /\ old[1] = 1 THEN 2 ELSE 1)
    ELSE (IF IsSome(old) THEN old[1] ELSE 2)

----------------------------------------------------------------------------
(* Construction *)

RECURSIVE bucketsSizeLoop(_, _)
bucketsSizeLoop(bucketsSize, size) ==
    IF bucketsSize < size THEN bucketsSizeLoop(bucketsSize * 2, size) ELSE bucketsSize

bucketsSizeFor(size) == bucketsSizeLoop(16, size)

MakeHashDict(hasher, capacity) ==
    LET size == IF capacity < defaultElementsSize THEN defaultElementsSize ELSE capacity
    IN  [ buckets     |-> [i \in 0..(bucketsSizeFor(capacity) - 1) |-> -1],
          entries     |-> [i \in 0..(size - 1) |-> zeroEntry],
          appendCount |-> 0,
          freeCount   |-> 0,
          freeSize    |-> 0,
          hasher      |-> hasher,
          loadFactor  |-> 1 ]

----------------------------------------------------------------------------
(* Reading *)

index(d, hash) == GoRem(hash, len(d.buckets))

\* for i := buckets[index]; i >= 0; i = entries[i].next { if hash and key match ... }
\* the index of the first match, -1 when the chain is exhausted
RECURSIVE chainFind(_, _, _, _)
chainFind(d, i, hash, key) ==
    IF i < 0 THEN -1
    ELSE IF d.entries[i].hash = hash /\ d.entries[i].key = key THEN i
    ELSE chainFind(d, d.entries[i].next, hash, key)

TryGet(d, key) ==
    LET hash == d.hasher[key]
        i    == chainFind(d, d.buckets[index(d, hash)], hash, key)
    IN  IF i >= 0 THEN Some(d.entries[i].value) ELSE None

Contains(d, key) == IsSome(TryGet(d, key))

\* what a panicking call is abandoned with: the error Get raises itself, and
\* the runtime's error for an index expression out of range
OutOfBounds == "OutOfBounds"
IndexOutOfRange == "index out of range"

\* a call of TryGet: a.inner.buckets[index] panics when index is negative
TryGetResult(d, key) ==
    IF index(d, d.hasher[key]) < 0
    THEN [inner |-> d, val |-> IndexOutOfRange, panic |-> TRUE]
    ELSE [inner |-> d, val |-> TryGet(d, key), panic |-> FALSE]

\* Get with the zero value returned for a key that is not found
GetZeroOnMiss(d, key) ==
    LET r == TryGetResult(d, key)
    IN  IF r.panic THEN r
        ELSE IF IsSome(r.val) THEN [inner |-> d, val |-> r.val[1], panic |-> FALSE]
        ELSE [inner |-> d, val |-> nilV, panic |-> FALSE]

Get(d, key) ==
    LET r == TryGetResult(d, key)
    IN  IF r.panic THEN r
        ELSE IF IsSome(r.val) THEN [inner |-> d, val |-> r.val[1], panic |-> FALSE]
        ELSE [inner |-> d, val |-> OutOfBounds, panic |-> TRUE]

Size(d) == d.appendCount - d.freeSize + 1

IsEmpty(d) == Size(d) = 0

----------------------------------------------------------------------------
(* Growth *)

\* for i, v := range entries { if v.alive { relink i at the head of newBuckets[v.hash % n] } }
RECURSIVE rehashLoop(_, _, _, _)
rehashLoop(entries, newBuckets, i, newBucketsSize) ==
    IF i >= len(entries) THEN [entries |-> entries, buckets |-> newBuckets]
    ELSE IF entries[i].alive
    THEN LET bucket == GoRem(entries[i].hash, newBucketsSize)
         IN  rehashLoop([entries EXCEPT ![i].next = newBuckets[bucket]],
                        [newBuckets EXCEPT ![bucket] = i],
                        i + 1, newBucketsSize)
    ELSE rehashLoop(entries, newBuckets, i + 1, newBucketsSize)

\* grow with the bucket array enlarged by half, as the entry array's growth is
\* written, instead of doubled
growBucketsByHalf(d, newSize) ==
    LET entriesSize == len(d.entries)
        bucketsSize == len(d.buckets)
        d1 == IF (newSize \div bucketsSize) > d.loadFactor
              THEN LET newBucketsSize == bucketsSize + (bucketsSize \div 2)
                       r == rehashLoop(d.entries,
                                       [i \in 0..(newBucketsSize - 1) |-> -1],
                                       0, newBucketsSize)
                   IN  [d EXCEPT !.entries = r.entries, !.buckets = r.buckets]
              ELSE d
    IN  IF newSize > entriesSize
        THEN [d1 EXCEPT !.entries =
                 [i \in 0..(entriesSize + (entriesSize * 2) - 1) |->
                     IF i < entriesSize THEN d1.entries[i] ELSE zeroEntry]]
        ELSE d1

grow(d, newSize) ==
    LET entriesSize == len(d.entries)
        bucketsSize == len(d.buckets)
        \* float64(newSize/bucketsSize) > loadFactor: the division is on ints
        d1 == IF (newSize \div bucketsSize) > d.loadFactor
              THEN LET newBucketsSize == bucketsSize * 2
                       r == rehashLoop(d.entries,
                                       [i \in 0..(newBucketsSize - 1) |-> -1],
                                       0, newBucketsSize)
                   IN  [d EXCEPT !.entries = r.entries, !.buckets = r.buckets]
              ELSE d
    IN  IF newSize > entriesSize
        THEN \* make([]entry, entriesSize+(entriesSize<<1)); copy(newEntries, entries)
             [d1 EXCEPT !.entries =
                 [i \in 0..(entriesSize + (entriesSize * 2) - 1) |->
                     IF i < entriesSize THEN d1.entries[i] ELSE zeroEntry]]
        ELSE d1

----------------------------------------------------------------------------
(* Writing.  Each operator gives [inner, val, panic]: the table after the  *)
(* call, the value returned, and whether the call panicked instead.        *)

\* the slot a new entry goes to: popped from the free list, or appended after grow
takeSlot(d) ==
    IF d.freeSize > 0
    THEN [ inner  |-> [d EXCEPT !.freeCount = d.entries[d.freeCount].next,
                                !.freeSize = d.freeSize - 1],
           bucket |-> d.freeCount ]
    ELSE LET g == grow(d, Size(d) + 1)
         IN  [ inner  |-> [g EXCEPT !.appendCount = g.appendCount + 1],
               bucket |-> g.appendCount ]

\* the tail of Put and GetAndPut on a miss; index was computed before takeSlot
linkNew(d, bucket, idx, hash, key, value) ==
    [d EXCEPT !.entries[bucket] = [hash |-> hash, key |-> key, value |-> value,
                                   next |-> d.buckets[idx], alive |-> TRUE],
              !.buckets[idx] = bucket]

\* Put whose hit branch builds the new entry without item.next
PutCutsChainOnHit(d, key, value) ==
    LET hash == d.hasher[key]
        idx  == index(d, hash)
    IN  IF idx < 0 THEN [inner |-> d, val |-> None, panic |-> TRUE]
        ELSE LET i == chainFind(d, d.buckets[idx], hash, key)
             IN  IF i >= 0
                 THEN [ inner |-> [d EXCEPT !.entries[i].value = value,
                                            !.entries[i].next = 0],
                        val   |-> Some(d.entries[i].value),
                        panic |-> FALSE ]
                 ELSE LET s == takeSlot(d)
                      IN  [ inner |-> linkNew(s.inner, s.bucket, idx, hash, key, value),
                            val   |-> None,
                            panic |-> FALSE ]

Put(d, key, value) ==
    LET hash == d.hasher[key]
        idx  == index(d, hash)
    IN  IF idx < 0 THEN [inner |-> d, val |-> None, panic |-> TRUE]
        ELSE LET i == chainFind(d, d.buckets[idx], hash, key)
             IN  IF i >= 0
                 THEN [ inner |-> [d EXCEPT !.entries[i].value = value],
                        val   |-> Some(d.entries[i].value),
                        panic |-> FALSE ]
                 ELSE LET s == takeSlot(d)
                      IN  [ inner |-> linkNew(s.inner, s.bucket, idx, hash, key, value),
                            val   |-> None,
                            panic |-> FALSE ]

\* GetAndPut whose hit branch returns without writing the entry
GetAndPutKeepsOld(d, key, fn) ==
    LET hash == d.hasher[key]
        idx  == index(d, hash)
    IN  IF idx < 0 THEN [inner |-> d, val |-> None, panic |-> TRUE, setArgs |-> <<>>]
        ELSE LET i == chainFind(d, d.buckets[idx], hash, key)
             IN  IF i >= 0
                 THEN LET newValue == ApplySet(fn, Some(d.entries[i].value))
                      IN  [ inner   |-> d,
                            val     |-> <<newValue, Some(d.entries[i].value)>>,
                            panic   |-> FALSE,
                            setArgs |-> <<Some(d.entries[i].value)>> ]
                 ELSE LET s == takeSlot(d)
                          newValue == ApplySet(fn, None)
                      IN  [ inner   |-> linkNew(s.inner, s.bucket, idx, hash, key, newValue),
                            val     |-> <<newValue, None>>,
                            panic   |-> FALSE,
                            setArgs |-> <<None>> ]

\* setArgs lists the arguments of the calls of set, in order
GetAndPut(d, key, fn) ==
    LET hash == d.hasher[key]
        idx  == index(d, hash)
    IN  IF idx < 0 THEN [inner |-> d, val |-> None, panic |-> TRUE, setArgs |-> <<>>]
        ELSE LET i == chainFind(d, d.buckets[idx], hash, key)
             IN  IF i >= 0
                 THEN LET newValue == ApplySet(fn, Some(d.entries[i].value))
                      IN  [ inner   |-> [d EXCEPT !.entries[i].value = newValue],
                            val     |-> <<newValue, Some(d.entries[i].value)>>,
                            panic   |-> FALSE,
                            setArgs |-> <<Some(d.entries[i].value)>> ]
                 ELSE LET s == takeSlot(d)
                          newValue == ApplySet(fn, None)
                      IN  [ inner   |-> linkNew(s.inner, s.bucket, idx, hash, key, newValue),
                            val     |-> <<newValue, None>>,
                            panic   |-> FALSE,
                            setArgs |-> <<None>> ]

\* Remove with the loop's test reduced to item.hash == hash
RECURSIVE chainFindHash(_, _, _)
chainFindHash(d, i, hash) ==
    IF i < 0 THEN -1
    ELSE IF d.entries[i].hash = hash THEN i
    ELSE chainFindHash(d, d.entries[i].next, hash)

RemoveByHashOnly(d, key) ==
    LET hash == d.hasher[key]
        idx  == index(d, hash)
        last == -1
    IN  IF idx < 0 THEN [inner |-> d, val |-> None, panic |-> TRUE]
        ELSE LET i == chainFindHash(d, d.buckets[idx], hash)
             IN  IF i < 0 THEN [inner |-> d, val |-> None, panic |-> FALSE]
                 ELSE LET d1 == IF last < 0
                                THEN [d EXCEPT !.buckets[idx] = d.entries[i].next]
                                ELSE [d EXCEPT !.entries[last].next = d.entries[i].next]
                          empty == [zeroEntry EXCEPT !.next = d1.freeCount]
                      IN  [ inner |-> [d1 EXCEPT !.entries[i] = empty,
                                                 !.freeCount = i + 1],
                            val   |-> Some(d.entries[i].value),
                            panic |-> FALSE ]

Remove(d, key) ==
    LET hash == d.hasher[key]
        idx  == index(d, hash)
        \* var last = -1: the loop never assigns it again
        last == -1
    IN  IF idx < 0 THEN [inner |-> d, val |-> None, panic |-> TRUE]
        ELSE LET i == chainFind(d, d.buckets[idx], hash, key)
             IN  IF i < 0 THEN [inner |-> d, val |-> None, panic |-> FALSE]
                 ELSE LET d1 == IF last < 0
                                THEN [d EXCEPT !.buckets[idx] = d.entries[i].next]
                                ELSE [d EXCEPT !.entries[last].next = d.entries[i].next]
                          \* entry{next: freeCount, key: nilK, value: nilV}
                          empty == [zeroEntry EXCEPT !.next = d1.freeCount]
                      IN  [ inner |-> [d1 EXCEPT !.entries[i] = empty,
                                                 \* freeCount = i; freeCount++
                                                 !.freeCount = i + 1],
                            val   |-> Some(d.entries[i].value),
                            panic |-> FALSE ]

Clear(d) ==
    [d EXCEPT !.buckets = [i \in DOMAIN d.buckets |-> -1],
              !.entries = [i \in DOMAIN d.entries |-> zeroEntry]]

\* HashDictOf: MakeHashDict(hasher, len(elements)), then Put of each pair in order
RECURSIVE putEach(_, _, _)
putEach(d, elements, n) ==
    IF n > Len(elements) THEN d
    ELSE putEach(Put(d, elements[n][1], elements[n][2]).inner, elements, n + 1)

HashDictOf(hasher, elements) ==
    putEach(MakeHashDict(hasher, Len(elements)), elements, 1)

----------------------------------------------------------------------------
(* Iteration *)

\* Iter(): &hashMapIterator{-1, a}; the cursor is its index field
Iter == -1

\* hashMapIterator.Next: [index, item], the cursor after the call and what it returned
RECURSIVE IterNext(_, _)
IterNext(d, idx) ==
    IF idx < len(d.entries) - 1
    THEN IF d.entries[idx + 1].alive
         THEN [index |-> idx + 1,
               item  |-> Some(<<d.entries[idx + 1].key, d.entries[idx + 1].value>>)]
         ELSE IterNext(d, idx + 1)
    ELSE [index |-> idx, item |-> None]

\* ForEach over a cursor: the items of the calls of Next up to the first None
RECURSIVE ForEach(_, _)
ForEach(d, idx) ==
    LET n == IterNext(d, idx)
    IN  IF IsSome(n.item) THEN <<n.item[1]>> \o ForEach(d, n.index) ELSE <<>>

\* a full iteration from a fresh cursor
IterAll(d) == ForEach(d, Iter)

\* make([]Pair, a.Size()) is Size() zero pairs; ForEach appends after them
ToSlice(d) == [n \in 1..Size(d) |-> <<nilK, nilV>>] \o IterAll(d)

----------------------------------------------------------------------------
(* HashSet.  Its HashMap[T, Void] is not among the sources; it is modelled  *)
(* by the set of its keys, with Put and Remove returning the previous value *)
(* as the table contract of the specification states.                       *)

Void == "Void"

HashMapPut(s, key, value) ==
    [inner |-> s \cup {key}, val |-> IF key \in s THEN Some(value) ELSE None]

HashMapRemove(s, key) ==
    [inner |-> s \ {key}, val |-> IF key \in s THEN Some(Void) ELSE None]

HashMapClear(s) == {}

HashSetPut(s, element) ==
    LET r == HashMapPut(s, element, Void)
    IN  [inner |-> r.inner, val |-> IsSome(r.val)]

HashSetRemove(s, element) ==
    LET r == HashMapRemove(s, element)
    IN  [inner |-> r.inner, val |-> IsSome(r.val)]

----------------------------------------------------------------------------
(* Actions *)

NoCall(name) == [name |-> name, key |-> 0, value |-> 0, fn |-> "-"]

EmptyModel == [k \in HashedKeys |-> None]

\* the abstract map after Put of each pair of elements, in order
RECURSIVE ModelOf(_)
ModelOf(elements) ==
    IF elements = <<>> THEN EmptyModel
    ELSE LET n == Len(elements)
         IN  [ModelOf(SubSeq(elements, 1, n - 1)) EXCEPT
                  ![elements[n][1]] = Some(elements[n][2])]

Constructed(d, name, m) ==
    /\ inner = d
    /\ pre = d
    /\ call = NoCall(name)
    /\ ret = [panic |-> FALSE, val |-> None]
    /\ model = m
    /\ elems = {}
    /\ preElems = {}

Returned(r) ==
    /\ inner' = r.inner
    /\ pre' = inner
    /\ ret' = [panic |-> r.panic, val |-> r.val]
    /\ UNCHANGED <<elems, preElems>>

PutCall(K, V, maxAppend) ==
    \E key \in K, value \in V :
        LET r == Put(inner, key, value)
        IN  /\ r.inner.appendCount <= maxAppend
            /\ Returned(r)
            /\ call' = [name |-> "Put", key |-> key, value |-> value, fn |-> "-"]
            /\ model' = IF r.panic THEN model ELSE [model EXCEPT ![key] = Some(value)]

GetAndPutCall(K, F, maxAppend) ==
    \E key \in K, fn \in F :
        LET r == GetAndPut(inner, key, fn)
        IN  /\ r.inner.appendCount <= maxAppend
            /\ Returned(r)
            /\ call' = [name |-> "GetAndPut", key |-> key, value |-> 0, fn |-> fn,
                        setArgs |-> r.setArgs]
            /\ model' = IF r.panic THEN model
                        ELSE [model EXCEPT ![key] = Some(ApplySet(fn, model[key]))]

RemoveCall(K) ==
    \E key \in K :
        LET r == Remove(inner, key)
        IN  /\ Returned(r)
            /\ call' = [name |-> "Remove", key |-> key, value |-> 0, fn |-> "-"]
            /\ model' = IF r.panic THEN model ELSE [model EXCEPT ![key] = None]

\* the calls that only read leave the abstract map as it is
TryGetCall(K) ==
    \E key \in K :
        /\ Returned(TryGetResult(inner, key))
        /\ call' = [name |-> "TryGet", key |-> key, value |-> 0, fn |-> "-"]
        /\ UNCHANGED model

GetCall(K) ==
    \E key \in K :
        /\ Returned(Get(inner, key))
        /\ call' = [name |-> "Get", key |-> key, value |-> 0, fn |-> "-"]
        /\ UNCHANGED model

ToSliceCall ==
    /\ Returned([inner |-> inner, val |-> ToSlice(inner), panic |-> FALSE])
    /\ call' = NoCall("ToSlice")
    /\ UNCHANGED model

ClearCall ==
    /\ Returned([inner |-> Clear(inner), val |-> None, panic |-> FALSE])
    /\ call' = NoCall("Clear")
    /\ model' = EmptyModel

SetReturned(r) ==
    /\ elems' = r.inner
    /\ preElems' = elems
    /\ ret' = [panic |-> FALSE, val |-> r.val]
    /\ UNCHANGED <<inner, pre, model>>

SetPutCall ==
    \E element \in Elements :
        /\ SetReturned(HashSetPut(elems, element))
        /\ call' = [name |-> "HashSet.Put", key |-> element, value |-> 0, fn |-> "-"]

SetRemoveCall ==
    \E element \in Elements :
        /\ SetReturned(HashSetRemove(elems, element))
        /\ call' = [name |-> "HashSet.Remove", key |-> element, value |-> 0, fn |-> "-"]

SetClearCall ==
    /\ SetReturned([inner |-> HashMapClear(elems), val |-> FALSE])
    /\ call' = NoCall("HashSet.Clear")

----------------------------------------------------------------------------
(* Specifications *)

\* calls on a few colliding keys, under either hasher, from any capacity
Init ==
    \E hasher \in {NumberHasher, CustomHasher}, capacity \in Capacities :
        Constructed(MakeHashDict(hasher, capacity), "MakeHashDict", EmptyModel)

Next ==
    \/ PutCall(Keys, Values, MaxAppend)
    \/ GetAndPutCall(Keys, SetFns, MaxAppend)
    \/ RemoveCall(Keys)
    \/ ClearCall

Spec == Init /\ [][Next]_vars

\* HashDictOf on no element or on one element per bucket, then runs of calls
\* long enough for the bucket array to double
PreloadElements(n) == [k \in 1..n |-> <<k - 1, 1>>]

InitDeep ==
    \/ \E capacity \in DeepCapacities :
           Constructed(MakeHashDict(NumberHasher, capacity), "MakeHashDict", EmptyModel)
    \/ \E n \in PreloadSizes :
           Constructed(HashDictOf(NumberHasher, PreloadElements(n)), "HashDictOf",
                       ModelOf(PreloadElements(n)))

NextDeep ==
    \/ PutCall(DeepKeys, DeepValues, MaxAppendDeep)
    \/ GetAndPutCall(DeepKeys, DeepFns, MaxAppendDeep)
    \/ RemoveCall(DeepKeys)
    \/ ClearCall

SpecDeep == InitDeep /\ [][NextDeep]_vars

\* Put and Remove alone, on the keys of Spec
NextPutRemove ==
    \/ PutCall(Keys, Values, MaxAppend)
    \/ RemoveCall(Keys)

SpecPutRemove == Init /\ [][NextPutRemove]_vars

\* Put, Remove and the calls that only read
NextQuery ==
    \/ NextPutRemove
    \/ TryGetCall(Keys)
    \/ GetCall(Keys)
    \/ ToSliceCall

SpecQuery == Init /\ [][NextQuery]_vars

\* calls on keys of either sign under NumberHasher
InitNeg == Constructed(MakeHashDict(NumberHasher, 0), "MakeHashDict", EmptyModel)

NextNeg ==
    \/ PutCall(SignedKeys, Values, MaxAppend)
    \/ GetAndPutCall(SignedKeys, SetFns, MaxAppend)
    \/ RemoveCall(SignedKeys)
    \/ TryGetCall(SignedKeys)
    \/ GetCall(SignedKeys)

SpecNeg == InitNeg /\ [][NextNeg]_vars

\* calls on a HashSet made by MakeHashSet
InitSet == Constructed(MakeHashDict(NumberHasher, 0), "MakeHashSet", EmptyModel)

NextSet ==
    \/ SetPutCall
    \/ SetRemoveCall
    \/ SetClearCall

SpecSet == InitSet /\ [][NextSet]_vars

----------------------------------------------------------------------------
(* What the claims speak of *)

Alive(d) == {i \in DOMAIN d.entries : d.entries[i].alive}

\* the keys the abstract map holds
Present(m) == {k \in DOMAIN m : IsSome(m[k])}

\* whether the walk from entry j along next links meets entry i
RECURSIVE chainHas(_, _, _)
chainHas(d, j, i) ==
    IF j < 0 THEN FALSE
    ELSE IF j = i THEN TRUE
    ELSE chainHas(d, d.entries[j].next, i)

\* entry i is on the chain of the bucket its cached hash selects
Linked(d, i) == chainHas(d, d.buckets[index(d, d.entries[i].hash)], i)

RECURSIVE IsPowerOfTwo(_)
IsPowerOfTwo(n) == n = 1 \/ (n > 1 /\ n % 2 = 0 /\ IsPowerOfTwo(n \div 2))

\* the last call was a Put or GetAndPut on a key its lookup missed, and grow
\* replaced an array in it
GrewOnPut ==
    /\ call.name = "Put"
    /\ ~ret.panic
    /\ ~Contains(pre, call.key)
    /\ \/ len(inner.buckets) # len(pre.buckets)
       \/ len(inner.entries) # len(pre.entries)

----------------------------------------------------------------------------
(* Claims *)

\* C1: after any sequence of Put and Remove, TryGet(k) agrees for every key k
\* with the abstract map stepped through the same calls: Some(v) for the value
\* of the last Put(k, v) not followed by Remove(k), None otherwise.
C1_LookupsRefineMap == \A k \in Keys : TryGet(inner, k) = model[k]

\* C2: Put(key, value) returns Some(old) when the table holds key (old being
\* the value stored just before the call) and None when it does not, and
\* Contains(key) is true right after the call.
C2_PutReturnsPrevious ==
    (call.name = "Put" /\ ~ret.panic) =>
        /\ ret.val = TryGet(pre, call.key)
        /\ Contains(inner, call.key)

\* C3: Remove(key) on a key the table holds returns Some(v), v the value stored
\* for key, also when its entry is not the head of its chain; afterwards
\* Contains(key) is false and every other key the table held maps to the same
\* value.
C3_RemoveKeepsOthers ==
    (call.name = "Remove" /\ ~ret.panic /\ Contains(pre, call.key)) =>
        /\ ret.val = TryGet(pre, call.key)
        /\ ~Contains(inner, call.key)
        /\ \A k \in AllKeys \ {call.key} :
               Contains(pre, k) => TryGet(inner, k) = TryGet(pre, k)

\* C4: Remove(key) on a key the table does not hold returns None and leaves
\* buckets, entries, appendCount, the free-list head and the free count as
\* they were.
C4_RemoveMissIsNoOp ==
    (call.name = "Remove" /\ ~ret.panic /\ ~Contains(pre, call.key)) =>
        /\ ret.val = None
        /\ inner.buckets = pre.buckets
        /\ inner.entries = pre.entries
        /\ inner.appendCount = pre.appendCount
        /\ inner.freeCount = pre.freeCount
        /\ inner.freeSize = pre.freeSize

\* C4 witness: a Remove missed after walking a chain that is not empty, in a
\* table that has freed a slot before
C4_Witness ==
    /\ call.name = "Remove"
    /\ ~Contains(pre, call.key)
    /\ pre.buckets[index(pre, pre.hasher[call.key])] >= 0
    /\ pre.freeCount > 0
    /\ ret.val = None

\* C5: a full iteration from a fresh cursor yields exactly one pair (k, v) for
\* each key k the abstract map holds, v its current value, and nothing else;
\* the number of items is the number of keys the abstract map holds.
C5_IterationYieldsMap ==
    LET items == IterAll(inner)
    IN  /\ Len(items) = Cardinality(Present(model))
        /\ \A k \in Present(model) :
               Cardinality({n \in 1..Len(items) : items[n] = <<k, model[k][1]>>}) = 1
        /\ \A n \in 1..Len(items) :
               /\ items[n][1] \in Present(model)
               /\ items[n][2] = model[items[n][1]][1]

\* C6: Size() is the number of entries with alive = true, which is appendCount
\* minus the number of free slots (so 0, with IsEmpty() true, for a table just
\* made, and one less after a Remove that found its key).
C6_SizeCountsAlive ==
    /\ Size(inner) = Cardinality(Alive(inner))
    /\ IsEmpty(inner) <=> Alive(inner) = {}
    /\ (call.name = "Remove" /\ IsSome(ret.val)) => Size(inner) = Size(pre) - 1

\* C7: HashSet.Put(element) returns true exactly when element was not in the
\* set before the call.
C7_SetPutReportsNew ==
    call.name = "HashSet.Put" => (ret.val <=> call.key \notin preElems)

\* C8: the bucket array's length is a power of two, at least 16, and no call
\* makes it smaller than it was.
C8_BucketsPowerOfTwo ==
    /\ IsPowerOfTwo(len(inner.buckets))
    /\ len(inner.buckets) >= 16
    /\ len(inner.buckets) >= len(pre.buckets)

\* C8 witness: a call has doubled the bucket array
C8_Witness ==
    /\ call.name \in {"Put", "GetAndPut"}
    /\ len(inner.buckets) = 2 * len(pre.buckets)

\* C9: after a Put of a new key that grows an array, every key the table held
\* maps to the same value, every live entry is on the chain of bucket
\* hash mod (new bucket count), and the dead entries, the slot the new entry
\* is written to aside, are as they were.
C9_GrowthKeepsLookups ==
    GrewOnPut =>
        /\ \A k \in AllKeys :
               Contains(pre, k) => TryGet(inner, k) = TryGet(pre, k)
        /\ \A i \in Alive(inner) : Linked(inner, i)
        /\ \A i \in DOMAIN pre.entries \ {takeSlot(pre).bucket} :
               ~pre.entries[i].alive => inner.entries[i] = pre.entries[i]

\* C10: after Clear() every bucket is -1 and every entry the zero value, both
\* arrays keep their lengths, and appendCount, the free-list head and the free
\* count are those of a table just made, so that a following Put writes slot 0.
C10_ClearResets ==
    call.name = "Clear" =>
        /\ \A b \in DOMAIN inner.buckets : inner.buckets[b] = -1
        /\ \A i \in DOMAIN inner.entries : inner.entries[i] = zeroEntry
        /\ len(inner.buckets) = len(pre.buckets)
        /\ len(inner.entries) = len(pre.entries)
        /\ inner.appendCount = 0
        /\ inner.freeCount = 0
        /\ inner.freeSize = 0
        /\ takeSlot(inner).bucket = 0

\* the lookup of key in d reads a bucket there is: key is then held or not held
Indexed(d, key) == index(d, d.hasher[key]) \in DOMAIN d.buckets

\* C11: Get(key) returns the value TryGet(key) holds when the table holds key;
\* when it does not, Get panics with OutOfBounds; a failing Get leaves the
\* table as it was.
C11_GetPanicsOnMiss ==
    (call.name = "Get" /\ Indexed(pre, call.key)) =>
        /\ inner = pre
        /\ IF Contains(pre, call.key)
           THEN ~ret.panic /\ Some(ret.val) = TryGet(pre, call.key)
           ELSE ret.panic /\ ret.val = OutOfBounds

\* C11 witness: a Get has panicked on a key removed from a table that still
\* holds another key
C11_Witness ==
    /\ call.name = "Get"
    /\ ret.panic
    /\ Alive(inner) # {}
    /\ inner.freeCount > 0

\* C12: GetAndPut(key, fn) calls fn once, with the option TryGet(key) held
\* before the call, returns the pair of fn's result and that option, and leaves
\* the table as Put(key, fn's result) leaves it from the same state.
C12_GetAndPutIsPut ==
    (call.name = "GetAndPut" /\ Indexed(pre, call.key)) =>
        LET old      == TryGet(pre, call.key)
            newValue == ApplySet(call.fn, old)
            put      == Put(pre, call.key, newValue)
        IN  /\ call.setArgs = <<old>>
            /\ ret.panic = put.panic
            /\ ret.val = <<newValue, old>>
            /\ inner = put.inner

\* C12 witness: a GetAndPut has replaced the value of a key the table held
C12_Witness ==
    /\ call.name = "GetAndPut"
    /\ IsSome(ret.val[2])
    /\ ret.val[1] # ret.val[2][1]
    /\ inner # pre

\* the slots below appendCount that hold no entry: with Put and Remove as the
\* only calls, the slots a Remove freed and no Put has written since
FreedSlots(d) == {i \in 0..(d.appendCount - 1) : ~d.entries[i].alive}

\* C13: a Put of a key the table does not hold, when a freed slot exists,
\* writes the entry into a freed slot: appendCount stays, the slot was dead and
\* below appendCount, and the free count (freeSize) drops by one; appendCount
\* rises only when no freed slot exists.
C13_MissReusesFreedSlot ==
    (call.name = "Put" /\ ~ret.panic /\ ~Contains(pre, call.key)) =>
        IF FreedSlots(pre) # {}
        THEN /\ inner.appendCount = pre.appendCount
             /\ \E i \in FreedSlots(pre) :
                    inner.entries[i].alive /\ inner.entries[i].key = call.key
             /\ inner.freeSize = pre.freeSize - 1
        ELSE inner.appendCount = pre.appendCount + 1

\* the slots met from slot j along next, at most n of them
RECURSIVE walk(_, _, _)
walk(d, j, n) ==
    IF n = 0 \/ j \notin DOMAIN d.entries THEN <<>>
    ELSE <<j>> \o walk(d, d.entries[j].next, n - 1)

\* the chain of bucket b, cut off one slot after the number of slots there are
chainOf(d, b) == walk(d, d.buckets[b], len(d.entries) + 1)

\* C14: the chain of the bucket a live entry's hash selects ends at -1 and
\* holds the entry once; no chain has a cycle or a dead entry.
C14_ChainsHoldLiveEntries ==
    /\ \A i \in Alive(inner) :
           LET c == chainOf(inner, index(inner, inner.entries[i].hash))
           IN  /\ Len(c) <= len(inner.entries)
               /\ Cardinality({n \in 1..Len(c) : c[n] = i}) = 1
    /\ \A b \in DOMAIN inner.buckets :
           LET c == chainOf(inner, b)
           IN  /\ Len(c) <= len(inner.entries)
               /\ \A m, n \in 1..Len(c) : c[m] = c[n] => m = n
               /\ \A n \in 1..Len(c) : inner.entries[c[n]].alive

\* the free list: freeSize slots from the head freeCount along next
FreeList(d) ==
    LET f == walk(d, d.freeCount, d.freeSize) IN {f[n] : n \in 1..Len(f)}

\* the slots on some chain
Chained(d) ==
    UNION {LET c == chainOf(d, b) IN {c[n] : n \in 1..Len(c)} : b \in DOMAIN d.buckets}

\* C15: every slot below appendCount is on a chain or on the free list and
\* not on both, the free list holds dead slots only, and after a Remove that
\* freed slot i the head of the free list is i.
C15_FreeListPartition ==
    /\ \A i \in 0..(inner.appendCount - 1) :
           (i \in FreeList(inner)) # (i \in Chained(inner))
    /\ \A i \in FreeList(inner) : ~inner.entries[i].alive
    /\ (call.name = "Remove" /\ IsSome(ret.val)) =>
           LET hash == pre.hasher[call.key]
               i    == chainFind(pre, pre.buckets[index(pre, hash)], hash, call.key)
           IN  inner.freeCount = i

\* C16: a Put of a new key doubles the bucket array when the entries the table
\* would then hold, divided by the buckets, exceed loadFactor; after every
\* Put there are at most as many live entries as buckets.
C16_PutKeepsLoadFactor ==
    (call.name = "Put" /\ ~ret.panic) =>
        /\ (/\ ~Contains(pre, call.key)
            /\ Cardinality(Alive(pre)) + 1 > pre.loadFactor * len(pre.buckets))
               => len(inner.buckets) = 2 * len(pre.buckets)
        /\ Cardinality(Alive(inner)) <= inner.loadFactor * len(inner.buckets)

\* C17: when a Put or GetAndPut enlarges the entry array, the new length is
\* the old length plus half of it, rounded down, and every slot below the old
\* length other than the one the call wrote keeps its hash, key, value and
\* alive flag.
C17_EntriesGrowByHalf ==
    (/\ call.name \in {"Put", "GetAndPut"}
     /\ ~ret.panic
     /\ len(inner.entries) # len(pre.entries)) =>
        /\ len(inner.entries) = len(pre.entries) + (len(pre.entries) \div 2)
        /\ \A i \in DOMAIN pre.entries :
               i # takeSlot(pre).bucket =>
                   [inner.entries[i] EXCEPT !.next = 0] = [pre.entries[i] EXCEPT !.next = 0]

\* the slot of the entry the lookup of key finds in d, -1 when it finds none
slotOf(d, key) ==
    chainFind(d, d.buckets[index(d, d.hasher[key])], d.hasher[key], key)

\* C18: a Put on a key the table holds changes the value of that key's entry
\* and nothing else: not the entry's hash, key, next or alive, no other entry,
\* no bucket, not appendCount, freeCount or freeSize, not the arrays' lengths.
C18_PutHitWritesValueOnly ==
    (call.name = "Put" /\ Indexed(pre, call.key) /\ Contains(pre, call.key)) =>
        LET i == slotOf(pre, call.key)
        IN  /\ ~ret.panic
            /\ inner.entries[i].value = call.value
            /\ inner.entries[i].hash = pre.entries[i].hash
            /\ inner.entries[i].key = pre.entries[i].key
            /\ inner.entries[i].next = pre.entries[i].next
            /\ inner.entries[i].alive = pre.entries[i].alive
            /\ DOMAIN inner.entries = DOMAIN pre.entries
            /\ \A j \in DOMAIN pre.entries \ {i} : inner.entries[j] = pre.entries[j]
            /\ inner.buckets = pre.buckets
            /\ inner.appendCount = pre.appendCount
            /\ inner.freeCount = pre.freeCount
            /\ inner.freeSize = pre.freeSize

\* C18 witness: a Put has replaced the value of an entry that is followed by
\* another on its chain, in a table that has freed a slot
C18_Witness ==
    /\ call.name = "Put"
    /\ IsSome(ret.val)
    /\ ret.val[1] # call.value
    /\ inner.entries[slotOf(inner, call.key)].next >= 0
    /\ inner.freeCount > 0

\* C19: whatever the hasher returns for the key, negative values included, a
\* Put, TryGet, GetAndPut or Remove computes a bucket index from 0 to the
\* number of buckets less one and reads and writes no array out of bounds; the
\* slot a Put writes is below the length of the entry array.
C19_IndexInBounds ==
    call.name \in {"Put", "TryGet", "GetAndPut", "Remove"} =>
        /\ index(pre, pre.hasher[call.key]) \in DOMAIN pre.buckets
        /\ ~ret.panic
        /\ (call.name = "Put" /\ ~Contains(pre, call.key)) =>
               takeSlot(pre).bucket \in DOMAIN inner.entries

\* C20: ToSlice returns the items of a full iteration, in its order: as many
\* as there are live entries, each the pair of a live entry, none a zero pair.
C20_ToSliceIsIteration ==
    call.name = "ToSlice" =>
        /\ ret.val = IterAll(pre)
        /\ Len(ret.val) = Cardinality(Alive(pre))
        /\ \A n \in 1..Len(ret.val) :
               \E i \in Alive(pre) :
                   ret.val[n] = <<pre.entries[i].key, pre.entries[i].value>>

====
